---- MODULE Spec2Model ----
(***************************************************************************)
(* A model of sql_db.core: the SQLSession base class and its two dialects, *)
(* MSSQLSession and PostgreSQLSession.  One session object is constructed  *)
(* and then used through its public methods.  The SQL toolkit and the      *)
(* dataframe library are the environment: every call into them either      *)
(* succeeds with its effect or raises with no effect on the handle it was  *)
(* called on (a Connection whose close() raised is still open).            *)
(***************************************************************************)
EXTENDS Integers, Sequences, FiniteSets, TLC

\* ---------------------------------------------------------------- bounds
MaxOps == 4        \* method calls made on the session after construction
MaxNameLen == 3    \* characters of a table_fullname argument
MaxParams == 2     \* length of a params list given to exec_sp

\* ---------------------------------------------------------------- values
\* A Python value is its type tag and a payload; the payload of a string is
\* its sequence of characters, the payload of a list its items.
Str(s) == [t |-> "str", v |-> s]
IntVal == [t |-> "int", v |-> <<"5">>]    \* the integer 5
NoneVal == [t |-> "NoneType", v |-> <<>>]
List(s) == [t |-> "list", v |-> s]
Tuple(s) == [t |-> "tuple", v |-> s]
Bool(b) == [t |-> "bool", v |-> IF b THEN <<"True">> ELSE <<"False">>]

RECURSIVE SeqsUpTo(_, _)
SeqsUpTo(S, n) ==
  IF n = 0 THEN {<<>>}
  ELSE LET R == SeqsUpTo(S, n - 1)
       IN R \cup {Append(r, x) : r \in {q \in R : Len(q) = n - 1}, x \in S}

\* the arguments the calls are tried with
CredArgs == {Str(<<"a">>), IntVal}
PortArgs == {Str(<<"1">>), IntVal}
Dialects == {"MSSQL", "PostgreSQL"}
TableArgs == {Str(s) : s \in SeqsUpTo({"a", "."}, MaxNameLen)} \cup {IntVal}
QueryArgs == {Str(<<"q">>), IntVal}
NameArgs == {Str(<<"p">>), IntVal}
ParamArgs ==
  {List(s) : s \in SeqsUpTo({"x", "y"}, MaxParams)} \cup {NoneVal, Tuple(<<"x">>), IntVal}

\* six.string_types on Python 3 is (str,)
IsString(x) == x.t = "str"

Max(a, b) == IF a >= b THEN a ELSE b

VARIABLES
  pc,            \* "init": no session yet; "live": constructed; "failed": __init__ raised
  dialect,       \* the class that was instantiated
  server, port, db, user, password,   \* self.server .. self.password
  engine,        \* self.engine: "none" or the engine handle "e1"
  con,           \* self.con: "none" or the connection handle "c1"
  is_connected,  \* self.is_connected
  is_silent,     \* self.is_silent
  conOpen,       \* the toolkit's side of self.con: TRUE while the handle is open
  rawOpen,       \* raw connections checked out of the engine and not closed
  stdout,        \* what print() has written, oldest first
  scope,         \* "out" or "in": inside a with-block on the session
  last,          \* the last call: its name, arguments, driver calls and outcome
  nops           \* calls made so far

self_vars == <<dialect, server, port, db, user, password, engine, con,
               is_connected, is_silent>>
vars == <<pc, dialect, server, port, db, user, password, engine, con,
          is_connected, is_silent, conOpen, rawOpen, stdout, scope, last, nops>>

\* One call into the toolkit or the dataframe library: the function, the
\* handle it is called on, whether that handle is open, the statement and the
\* arguments handed over, and whether the call returned (ok) or raised.
Call(fn, on, open, stmt, args) ==
  [fn |-> fn, on |-> on, open |-> open, stmt |-> stmt, args |-> args, ok |-> TRUE]

\* the call, raising
Failed(c) == [c EXCEPT !.ok = FALSE]

\* the call, raising when raises is true
Attempt(c, raises) == IF raises THEN Failed(c) ELSE c

\* The record of one method call.  err is the class of the exception that
\* reached the caller ("none" when the call returned), calls the driver calls
\* it made in order, printed the number of print() calls it made, ret what it
\* returned, exc the error it was handed (__exit__) or chained from (raise .. from).
Outcome(op, arg, arg2, err, calls, printed, ret, exc) ==
  [op |-> op, arg |-> arg, arg2 |-> arg2, err |-> err, calls |-> calls,
   printed |-> printed, ret |-> ret, exc |-> exc]

\* the same, for an error raised "from" another one (its __cause__)
Chained(out, cause) == [out EXCEPT !.exc = cause]

Init ==
  /\ pc = "init"
  /\ dialect = "none"
  /\ server = NoneVal /\ port = NoneVal /\ db = NoneVal
  /\ user = NoneVal /\ password = NoneVal
  /\ engine = "none" /\ con = "none"
  /\ is_connected = FALSE /\ is_silent = FALSE
  /\ conOpen = FALSE /\ rawOpen = 0
  /\ stdout = <<>>
  /\ scope = "out"
  /\ last = Outcome("none", NoneVal, NoneVal, "none", <<>>, 0, "none", "none")
  /\ nops = 0

\* ------------------------------------------------------------ construction
\* f'{x}' of a value: its characters
Format(x) == x.v

\* MSSQLSession.make_engine / PostgreSQLSession.make_engine: the create_engine
\* call each dialect makes, with the URL it formats from the stored fields.
make_engine(d, a_user, a_password, a_server, a_port, a_db) ==
  IF d = "MSSQL"
  THEN Call("create_engine", "none", FALSE,
            <<"mssql+pyodbc://">> \o Format(a_user) \o <<":">> \o Format(a_password)
              \o <<"@">> \o Format(a_server) \o <<":">> \o Format(a_port) \o <<"/">>
              \o Format(a_db) \o <<"?driver=ODBC+Driver+13+for+SQL+Server">>,
            <<"fast_executemany">>)
  ELSE Call("create_engine", "none", FALSE,
            <<"postgres://">> \o Format(a_user) \o <<":">> \o Format(a_password)
              \o <<"@">> \o Format(a_server) \o <<":">> \o Format(a_port) \o <<"/">>
              \o Format(a_db),
            <<>>)

\* SQLSession.print_message: the banner, its rule as long as the longest line
print_message(a_server, a_db, a_user) ==
  [msg |-> "Connected to",
   fill |-> Max(Max(8 + Len(Format(a_server)), 10 + Len(Format(a_db))),
                6 + Len(Format(a_user)))]

\* the argument checks with "or" where the code has "and"
init_type_error_or(a_server, a_db, a_user, a_password) ==
  \/ ~(IsString(a_server) \/ IsString(a_db))
  \/ ~(IsString(a_user) \/ IsString(a_password))

\* the argument checks of SQLSession.__init__: TRUE when it raises TypeError
init_type_error(a_server, a_db, a_user, a_password) ==
  \/ ~(IsString(a_server) /\ IsString(a_db))
  \/ ~(IsString(a_user) /\ IsString(a_password))

\* SQLSession.__init__ on class d.  fail names the driver call that raises.
construct(d, a_server, a_port, a_db, a_user, a_password, silent, fail) ==
  /\ pc = "init"
  /\ dialect' = d
  /\ nops' = nops
  /\ UNCHANGED <<rawOpen, scope>>
  /\ IF init_type_error(a_server, a_db, a_user, a_password)
     THEN /\ pc' = "failed"
          /\ last' = Outcome("__init__", Tuple(<<a_server, a_db, a_user, a_password>>), Bool(silent),
                             "TypeError", <<>>, 0, "none", "none")
          /\ UNCHANGED <<server, port, db, user, password, engine, con,
                         is_connected, is_silent, conOpen, stdout>>
     ELSE /\ server' = a_server /\ port' = a_port /\ db' = a_db
          /\ user' = a_user /\ password' = a_password
          /\ IF fail = "create_engine"
             THEN /\ pc' = "failed"
                  /\ last' = Outcome("__init__", Tuple(<<a_server, a_db, a_user, a_password>>),
                                     Bool(silent), "DriverError",
                                     <<Failed(make_engine(d, a_user, a_password, a_server, a_port, a_db))>>, 0,
                                     "none", "none")
                  /\ UNCHANGED <<engine, con, is_connected, is_silent, conOpen, stdout>>
             ELSE /\ engine' = "e1"
                  /\ IF fail = "connect"
                     THEN /\ pc' = "failed"
                          /\ last' = Outcome("__init__",
                                             Tuple(<<a_server, a_db, a_user, a_password>>), Bool(silent),
                                             "DriverError",
                                             <<make_engine(d, a_user, a_password, a_server, a_port, a_db),
                                               Failed(Call("connect", "e1", FALSE, <<>>, <<>>))>>,
                                             0, "none", "none")
                          /\ UNCHANGED <<con, is_connected, is_silent, conOpen, stdout>>
                     ELSE /\ pc' = "live"
                          /\ con' = "c1"
                          /\ conOpen' = TRUE
                          /\ is_connected' = TRUE
                          /\ stdout' = IF ~silent THEN Append(stdout, print_message(a_server, a_db, a_user))
                                       ELSE stdout
                          /\ is_silent' = silent
                          /\ last' = Outcome("__init__",
                                             Tuple(<<a_server, a_db, a_user, a_password>>), Bool(silent),
                                             "none",
                                             <<make_engine(d, a_user, a_password, a_server, a_port, a_db),
                                               Call("connect", "e1", FALSE, <<>>, <<>>)>>,
                                             IF silent THEN 0 ELSE 1, "session", "none")

\* ------------------------------------------------------------------ close
\* What con.close() and the rest of SQLSession.close do to the session, as
\* [err, calls, is_connected, conOpen, out]: out is what the call prints.
close_message(message_, n) == [msg |-> message_, fill |-> n]

\* close() with the flag cleared before con.close() is called
close_result_flag_first(fail) ==
  IF is_connected
  THEN IF fail
       THEN [err |-> "DriverError",
             calls |-> <<Failed(Call("close", con, conOpen, <<>>, <<>>))>>,
             is_connected |-> FALSE, conOpen |-> conOpen, out |-> <<>>]
       ELSE [err |-> "none",
             calls |-> <<Call("close", con, conOpen, <<>>, <<>>)>>,
             is_connected |-> FALSE, conOpen |-> FALSE,
             out |-> IF ~is_silent THEN <<close_message("Connection closed", 17)>>
                     ELSE <<>>]
  ELSE [err |-> "none", calls |-> <<>>,
        is_connected |-> is_connected, conOpen |-> conOpen,
        out |-> IF ~is_silent THEN <<close_message("Connection is already closed", 28)>>
                ELSE <<>>]

\* close() that toggles the flag instead of clearing it
close_result_toggles(fail) ==
  IF is_connected
  THEN IF fail
       THEN [err |-> "DriverError",
             calls |-> <<Failed(Call("close", con, conOpen, <<>>, <<>>))>>,
             is_connected |-> is_connected, conOpen |-> conOpen, out |-> <<>>]
       ELSE [err |-> "none",
             calls |-> <<Call("close", con, conOpen, <<>>, <<>>)>>,
             is_connected |-> FALSE, conOpen |-> FALSE,
             out |-> IF ~is_silent THEN <<close_message("Connection closed", 17)>>
                     ELSE <<>>]
  ELSE [err |-> "none", calls |-> <<>>,
        is_connected |-> TRUE, conOpen |-> conOpen,
        out |-> IF ~is_silent THEN <<close_message("Connection is already closed", 28)>>
                ELSE <<>>]

\* close() without the is_connected test: con.close() on every call
close_result_unguarded(fail) ==
  IF fail
  THEN [err |-> "DriverError",
        calls |-> <<Failed(Call("close", con, conOpen, <<>>, <<>>))>>,
        is_connected |-> is_connected, conOpen |-> conOpen, out |-> <<>>]
  ELSE [err |-> "none",
        calls |-> <<Call("close", con, conOpen, <<>>, <<>>)>>,
        is_connected |-> FALSE, conOpen |-> FALSE,
        out |-> IF ~is_silent THEN <<close_message("Connection closed", 17)>>
                ELSE <<>>]

\* close() that swallows the error of con.close()
close_result_swallows(fail) ==
  IF is_connected
  THEN IF fail
       THEN [err |-> "none",
             calls |-> <<Failed(Call("close", con, conOpen, <<>>, <<>>))>>,
             is_connected |-> is_connected, conOpen |-> conOpen, out |-> <<>>]
       ELSE [err |-> "none",
             calls |-> <<Call("close", con, conOpen, <<>>, <<>>)>>,
             is_connected |-> FALSE, conOpen |-> FALSE,
             out |-> IF ~is_silent THEN <<close_message("Connection closed", 17)>>
                     ELSE <<>>]
  ELSE [err |-> "none", calls |-> <<>>,
        is_connected |-> is_connected, conOpen |-> conOpen,
        out |-> IF ~is_silent THEN <<close_message("Connection is already closed", 28)>>
                ELSE <<>>]

\* close() that prints whatever is_silent says
close_result_prints(fail) ==
  IF is_connected
  THEN IF fail
       THEN [err |-> "DriverError",
             calls |-> <<Failed(Call("close", con, conOpen, <<>>, <<>>))>>,
             is_connected |-> is_connected, conOpen |-> conOpen, out |-> <<>>]
       ELSE [err |-> "none",
             calls |-> <<Call("close", con, conOpen, <<>>, <<>>)>>,
             is_connected |-> FALSE, conOpen |-> FALSE,
             out |-> <<close_message("Connection closed", 17)>>]
  ELSE [err |-> "none", calls |-> <<>>,
        is_connected |-> is_connected, conOpen |-> conOpen,
        out |-> <<close_message("Connection is already closed", 28)>>]

close_result(fail) ==
  IF is_connected
  THEN IF fail
       THEN [err |-> "DriverError",
             calls |-> <<Failed(Call("close", con, conOpen, <<>>, <<>>))>>,
             is_connected |-> is_connected, conOpen |-> conOpen, out |-> <<>>]
       ELSE [err |-> "none",
             calls |-> <<Call("close", con, conOpen, <<>>, <<>>)>>,
             is_connected |-> FALSE, conOpen |-> FALSE,
             out |-> IF ~is_silent THEN <<close_message("Connection closed", 17)>>
                     ELSE <<>>]
  ELSE [err |-> "none", calls |-> <<>>,
        is_connected |-> is_connected, conOpen |-> conOpen,
        out |-> IF ~is_silent THEN <<close_message("Connection is already closed", 28)>>
                ELSE <<>>]

\* SQLSession.close
close(fail) ==
  /\ pc = "live" /\ nops < MaxOps
  /\ nops' = nops + 1
  /\ LET r == close_result(fail)
     IN /\ is_connected' = r.is_connected
        /\ conOpen' = r.conOpen
        /\ stdout' = stdout \o r.out
        /\ last' = Outcome("close", NoneVal, NoneVal, r.err, r.calls, Len(r.out),
                           "None", "none")
  /\ UNCHANGED <<pc, dialect, server, port, db, user, password, engine, con,
                 is_silent, rawOpen, scope>>

\* SQLSession.__enter__: the with-statement binds what it returns
enter ==
  /\ pc = "live" /\ nops < MaxOps
  /\ scope = "out"
  /\ scope' = "in"
  /\ nops' = nops + 1
  /\ last' = Outcome("__enter__", NoneVal, NoneVal, "none", <<>>, 0, "self", "none")
  /\ UNCHANGED <<pc, dialect, server, port, db, user, password, engine, con,
                 is_connected, is_silent, conOpen, rawOpen, stdout>>

\* __exit__ that closes only when the body finished without an error
exit_on_success(exc, fail) ==
  /\ pc = "live" /\ nops < MaxOps
  /\ scope = "in"
  /\ scope' = "out"
  /\ nops' = nops + 1
  /\ IF exc = "none"
     THEN LET r == close_result(fail)
          IN /\ is_connected' = r.is_connected
             /\ conOpen' = r.conOpen
             /\ stdout' = stdout \o r.out
             /\ last' = Outcome("__exit__", NoneVal, NoneVal, r.err, r.calls, Len(r.out),
                                "None", exc)
     ELSE /\ last' = Outcome("__exit__", NoneVal, NoneVal, exc, <<>>, 0, "None", exc)
          /\ UNCHANGED <<is_connected, conOpen, stdout>>
  /\ UNCHANGED <<pc, dialect, server, port, db, user, password, engine, con,
                 is_silent, rawOpen>>

\* __exit__ that returns True: the error of the body is suppressed
exit_suppresses(exc, fail) ==
  /\ pc = "live" /\ nops < MaxOps
  /\ scope = "in"
  /\ scope' = "out"
  /\ nops' = nops + 1
  /\ LET r == close_result(fail)
     IN /\ is_connected' = r.is_connected
        /\ conOpen' = r.conOpen
        /\ stdout' = stdout \o r.out
        /\ last' = Outcome("__exit__", NoneVal, NoneVal, r.err, r.calls, Len(r.out),
                           "True", exc)
  /\ UNCHANGED <<pc, dialect, server, port, db, user, password, engine, con,
                 is_silent, rawOpen>>

\* SQLSession.__exit__, called as the with-block is left; exc is the error the
\* body raised ("none" when it finished).  It returns None, so exc is not
\* suppressed; an error of close() replaces it.
exit(exc, fail) ==
  /\ pc = "live" /\ nops < MaxOps
  /\ scope = "in"
  /\ scope' = "out"
  /\ nops' = nops + 1
  /\ LET r == close_result(fail)
     IN /\ is_connected' = r.is_connected
        /\ conOpen' = r.conOpen
        /\ stdout' = stdout \o r.out
        /\ last' = Outcome("__exit__", NoneVal, NoneVal,
                           IF r.err # "none" THEN r.err ELSE exc,
                           r.calls, Len(r.out), "None", exc)
  /\ UNCHANGED <<pc, dialect, server, port, db, user, password, engine, con,
                 is_silent, rawOpen>>

\* ------------------------------------------------------------- statements
\* pandas and the toolkit raise on a closed Connection; otherwise a call
\* fails when the environment makes it fail.
Raises(fail) == fail \/ ~conOpen

\* the statement select_statement hands to pd.read_sql
select_query(query) ==
  IF dialect = "MSSQL" THEN <<"set nocount on; ">> \o query.v ELSE query.v

\* select_statement without the isinstance test
select_statement_unchecked(query, fail) ==
  /\ pc = "live" /\ nops < MaxOps
  /\ nops' = nops + 1
  /\ last' = Outcome("select_statement", query, NoneVal,
                     IF Raises(fail) THEN "DriverError" ELSE "none",
                     <<Attempt(Call("read_sql", con, conOpen, select_query(query), <<>>),
                               Raises(fail))>>,
                     0, IF Raises(fail) THEN "none" ELSE "DataFrame", "none")
  /\ UNCHANGED <<pc, dialect, server, port, db, user, password, engine, con,
                 is_connected, is_silent, conOpen, rawOpen, stdout, scope>>

\* select_statement that marks the session closed when the query fails
select_statement_marks_closed(query, fail) ==
  /\ pc = "live" /\ nops < MaxOps
  /\ nops' = nops + 1
  /\ IF ~IsString(query)
     THEN /\ last' = Outcome("select_statement", query, NoneVal, "TypeError", <<>>, 0,
                             "none", "none")
          /\ UNCHANGED is_connected
     ELSE /\ last' = Outcome("select_statement", query, NoneVal,
                             IF Raises(fail) THEN "DriverError" ELSE "none",
                             <<Attempt(Call("read_sql", con, conOpen, select_query(query),
                                            <<>>), Raises(fail))>>,
                             0, IF Raises(fail) THEN "none" ELSE "DataFrame", "none")
          /\ is_connected' = IF Raises(fail) THEN FALSE ELSE is_connected
  /\ UNCHANGED <<pc, dialect, server, port, db, user, password, engine, con,
                 is_silent, conOpen, rawOpen, stdout, scope>>

\* MSSQLSession.select_statement / PostgreSQLSession.select_statement
select_statement(query, fail) ==
  /\ pc = "live" /\ nops < MaxOps
  /\ nops' = nops + 1
  /\ IF ~IsString(query)
     THEN last' = Outcome("select_statement", query, NoneVal, "TypeError", <<>>, 0,
                          "none", "none")
     ELSE last' = Outcome("select_statement", query, NoneVal,
                          IF Raises(fail) THEN "DriverError" ELSE "none",
                          <<Attempt(Call("read_sql", con, conOpen, select_query(query), <<>>),
                                    Raises(fail))>>,
                          0, IF Raises(fail) THEN "none" ELSE "DataFrame", "none")
  /\ UNCHANGED <<pc, dialect, server, port, db, user, password, engine, con,
                 is_connected, is_silent, conOpen, rawOpen, stdout, scope>>

\* sep.join(items) for items that are single tokens
RECURSIVE join(_, _)
join(sep, items) ==
  IF items = <<>> THEN <<>>
  ELSE IF Len(items) = 1 THEN <<Head(items)>>
  ELSE <<Head(items), sep>> \o join(sep, Tail(items))

\* [x] * n
Repeat(x, n) == [i \in 1..n |-> x]

\* the statement with a single placeholder whatever the parameters
sp_statement_single(sp_name, params) ==
  <<"set nocount on; exec ">> \o sp_name.v \o <<" ">> \o <<"?">>

\* the statement MSSQLSession.exec_sp executes
sp_statement(sp_name, params) ==
  <<"set nocount on; exec ">> \o sp_name.v \o <<" ">> \o join(", ", Repeat("?", Len(params)))

\* the driver calls of MSSQLSession.exec_sp up to the one that raises
sp_calls(sp_name, params, fail) ==
  LET all == <<Call("raw_connection", engine, FALSE, <<>>, <<>>),
               Call("cursor", "raw", TRUE, <<>>, <<>>),
               Call("execute", "raw", TRUE, sp_statement(sp_name, params), params),
               Call("commit", "raw", TRUE, <<>>, <<>>)>>
      k == CASE fail = "raw_connection" -> 1
             [] fail = "cursor" -> 2
             [] fail = "execute" -> 3
             [] OTHER -> 4
  IN [i \in 1..k |-> Attempt(all[i], i = k /\ fail # "none")]

\* MSSQLSession.exec_sp without the isinstance test of params
mssql_exec_sp_any_params(sp_name, params, fail) ==
  IF ~IsString(sp_name)
  THEN [out |-> Outcome("exec_sp", sp_name, params, "TypeError", <<>>, 0, "none", "none"),
        rawOpen |-> rawOpen]
  ELSE LET ps == IF params.t = "NoneType" THEN <<>> ELSE params.v
       IN [out |-> Outcome("exec_sp", sp_name, params,
                           IF fail = "none" THEN "none" ELSE "DriverError",
                           sp_calls(sp_name, ps, fail), 0,
                           IF fail = "none" THEN "None" ELSE "none", "none"),
           rawOpen |-> IF fail = "raw_connection" THEN rawOpen ELSE rawOpen + 1]

\* MSSQLSession.exec_sp, as [out, rawOpen]: the call's record and the raw
\* connections left open after it
mssql_exec_sp(sp_name, params, fail) ==
  IF ~IsString(sp_name)
  THEN [out |-> Outcome("exec_sp", sp_name, params, "TypeError", <<>>, 0, "none", "none"),
        rawOpen |-> rawOpen]
  ELSE IF params.t # "NoneType" /\ params.t # "list"
  THEN [out |-> Outcome("exec_sp", sp_name, params, "TypeError", <<>>, 0, "none", "none"),
        rawOpen |-> rawOpen]
  ELSE LET ps == IF params.t = "NoneType" THEN <<>> ELSE params.v
       IN [out |-> Outcome("exec_sp", sp_name, params,
                           IF fail = "none" THEN "none" ELSE "DriverError",
                           sp_calls(sp_name, ps, fail), 0,
                           IF fail = "none" THEN "None" ELSE "none", "none"),
           rawOpen |-> IF fail = "raw_connection" THEN rawOpen ELSE rawOpen + 1]

\* exec_sp of dialect B with the argument checks of dialect A in front
pg_exec_sp_checked(sp_name, params, fail) ==
  [out |-> Outcome("exec_sp", sp_name, params,
                   IF ~IsString(sp_name) \/ params.t # "list" THEN "TypeError"
                   ELSE "NotImplementedError",
                   <<>>, 0, "none", "none"),
   rawOpen |-> rawOpen]

\* PostgreSQLSession.exec_sp
pg_exec_sp(sp_name, params, fail) ==
  [out |-> Outcome("exec_sp", sp_name, params, "NotImplementedError", <<>>, 0,
                   "none", "none"),
   rawOpen |-> rawOpen]

\* session.exec_sp(sp_name, params): the method of the session's class
exec_sp(sp_name, params, fail) ==
  /\ pc = "live" /\ nops < MaxOps
  /\ nops' = nops + 1
  /\ LET r == IF dialect = "MSSQL" THEN mssql_exec_sp(sp_name, params, fail)
              ELSE pg_exec_sp(sp_name, params, fail)
     IN /\ last' = r.out
        /\ rawOpen' = r.rawOpen
  /\ UNCHANGED <<pc, dialect, server, port, db, user, password, engine, con,
                 is_connected, is_silent, conOpen, stdout, scope>>

\* str.split(sep, 1): a split at the first separator only
split_once(s, sep) ==
  IF \E i \in 1..Len(s) : s[i] = sep
  THEN LET k == CHOOSE i \in 1..Len(s) : s[i] = sep /\ \A j \in 1..(i - 1) : s[j] # sep
       IN <<SubSeq(s, 1, k - 1), SubSeq(s, k + 1, Len(s))>>
  ELSE <<s>>

\* str.split(sep): the pieces of s between the separators
RECURSIVE split(_, _)
split(s, sep) ==
  IF s = <<>> THEN << <<>> >>
  ELSE IF Head(s) = sep THEN << <<>> >> \o split(Tail(s), sep)
  ELSE LET r == split(Tail(s), sep)
       IN << <<Head(s)>> \o Head(r) >> \o Tail(r)

\* the unpacking error let through as it is
split_error_reraised(out) == [out EXCEPT !.err = "ValueError"]

\* the error df_to_db raises when the unpacking of the split fails
split_error(out) == Chained([out EXCEPT !.err = "Exception"], "ValueError")

\* SQLSession.df_to_db
df_to_db(table_fullname, fail) ==
  /\ pc = "live" /\ nops < MaxOps
  /\ nops' = nops + 1
  /\ IF ~IsString(table_fullname)
     THEN last' = Outcome("df_to_db", table_fullname, NoneVal, "TypeError", <<>>, 0,
                          "none", "none")
     ELSE LET parts == split(table_fullname.v, ".")
          IN IF Len(parts) # 2
             THEN last' = split_error(Outcome("df_to_db", table_fullname, NoneVal,
                                              "none", <<>>, 0, "none", "none"))
             ELSE last' = Outcome("df_to_db", table_fullname, NoneVal,
                                  IF Raises(fail) THEN "DriverError" ELSE "none",
                                  <<Attempt(Call("to_sql", con, conOpen, parts[2], parts[1]),
                                            Raises(fail))>>,
                                  0, IF Raises(fail) THEN "none" ELSE "None", "none")
  /\ UNCHANGED <<pc, dialect, server, port, db, user, password, engine, con,
                 is_connected, is_silent, conOpen, rawOpen, stdout, scope>>

\* ---------------------------------------------------------- specification
Construct ==
  \E d \in Dialects, a_server \in CredArgs, a_port \in PortArgs, a_db \in CredArgs,
     a_user \in CredArgs, a_password \in CredArgs, silent \in BOOLEAN,
     fail \in {"none", "create_engine", "connect"} :
    construct(d, a_server, a_port, a_db, a_user, a_password, silent, fail)

Select == \E query \in QueryArgs, fail \in BOOLEAN : select_statement(query, fail)

ExecSp ==
  \E sp_name \in NameArgs, params \in ParamArgs,
     fail \in {"none", "raw_connection", "cursor", "execute", "commit"} :
    exec_sp(sp_name, params, fail)

WriteTable == \E table_fullname \in TableArgs, fail \in BOOLEAN : df_to_db(table_fullname, fail)

Close == \E fail \in BOOLEAN : close(fail)

Enter == enter

Exit == \E exc \in {"none", "BodyError"}, fail \in BOOLEAN : exit(exc, fail)

Next == Construct \/ Select \/ ExecSp \/ WriteTable \/ Close \/ Enter \/ Exit

Spec == Init /\ [][Next]_vars

\* ----------------------------------------------------------------- claims
\* a step that is a call of close(), direct or through __exit__
CloseStep == nops' = nops + 1 /\ last'.op \in {"close", "__exit__"}

\* C1: in every state of a constructed session, whatever calls were made and
\* whichever of them failed in the driver, is_connected is true exactly when
\* the connection handle self.con is open.
C1_FlagIffOpen == pc = "live" => (is_connected <=> conOpen)

\* C1 witness: a close() in which con.close() raised, the handle still open
C1_Witness ==
  /\ pc = "live" /\ last.op = "close" /\ last.err = "DriverError"
  /\ is_connected /\ conOpen

\* C2: is_connected is true right after a successful construction, false
\* right after a close() that returned, and once false no call sets it again.
C2_FlagLifecycle ==
  /\ [](last.op = "__init__" /\ last.err = "none" => is_connected)
  /\ [](last.op = "close" /\ last.err = "none" => ~is_connected)
  /\ [][pc = "live" /\ ~is_connected => ~is_connected']_vars

\* C2 witness: a call made on a session that close() has already closed
C2_Witness ==
  /\ pc = "live" /\ ~is_connected /\ nops >= 2
  /\ last.op \in {"select_statement", "exec_sp", "df_to_db", "close", "__enter__"}

\* C3 as stated: no close() ever raises, the first one closes the handle with
\* one con.close(), every later one makes no call on the handle and prints
\* the other message.
C3_CloseNeverRaises ==
  [][nops' = nops + 1 /\ last'.op = "close" =>
       /\ last'.err = "none"
       /\ conOpen =>
            /\ Len(last'.calls) = 1 /\ ~conOpen'
            /\ ~is_silent => stdout'[Len(stdout')].msg = "Connection closed"
       /\ ~conOpen =>
            /\ last'.calls = <<>>
            /\ ~is_silent => stdout'[Len(stdout')].msg = "Connection is already closed"]_vars

\* C3 amended: close() raises only with the error of a failing con.close(),
\* and then the handle stays open; a close() whose con.close() succeeds
\* closes the handle with that one call and reports "Connection closed"; every
\* close() on a closed handle returns, makes no call on the handle and
\* reports "Connection is already closed".
C3_CloseIdempotent ==
  [][nops' = nops + 1 /\ last'.op = "close" =>
       /\ last'.err \in {"none", "DriverError"}
       /\ last'.err = "DriverError" =>
            conOpen /\ conOpen' /\ Len(last'.calls) = 1 /\ stdout' = stdout
       /\ conOpen /\ last'.err = "none" =>
            /\ Len(last'.calls) = 1 /\ last'.calls[1].fn = "close" /\ ~conOpen'
            /\ ~is_silent => /\ Len(stdout') = Len(stdout) + 1
                             /\ stdout'[Len(stdout')].msg = "Connection closed"
       /\ ~conOpen =>
            /\ last'.err = "none" /\ last'.calls = <<>> /\ ~conOpen'
            /\ ~is_silent => /\ Len(stdout') = Len(stdout) + 1
                             /\ stdout'[Len(stdout')].msg = "Connection is already closed"]_vars

\* C3 witness: a second close(), after one that closed the handle
C3_Witness ==
  /\ last.op = "close" /\ last.err = "none" /\ last.calls = <<>> /\ ~conOpen
  /\ ~is_silent /\ Len(stdout) >= 3
  /\ stdout[Len(stdout)].msg = "Connection is already closed"
  /\ stdout[Len(stdout) - 1].msg = "Connection closed"

\* C4 as stated: __enter__ returns the session itself, and after __exit__ the
\* handle is closed and is_connected is false, whether or not the body raised.
C4_ScopeAlwaysClosed ==
  /\ last.op = "__enter__" => last.ret = "self" /\ last.calls = <<>>
  /\ last.op = "__exit__" => ~conOpen /\ ~is_connected

\* C4 amended: __enter__ returns the session itself without a driver call;
\* __exit__ calls close() whether or not the body raised, so that after it the
\* handle is closed and is_connected is false unless con.close() itself
\* raised, in which case that error reaches the caller and the handle is
\* still open with is_connected true.
C4_ScopeCloses ==
  /\ last.op = "__enter__" => last.ret = "self" /\ last.calls = <<>>
  /\ last.op = "__exit__" /\ last.err # "DriverError" => ~conOpen /\ ~is_connected
  /\ last.op = "__exit__" /\ last.err = "DriverError" =>
       conOpen /\ is_connected /\ Len(last.calls) = 1 /\ last.calls[1].fn = "close"

\* C4 witness: the body raised and __exit__ closed the open handle
C4_Witness ==
  /\ last.op = "__exit__" /\ last.exc = "BodyError" /\ last.err = "BodyError"
  /\ Len(last.calls) = 1 /\ ~conOpen /\ ~is_connected

\* C5: a construction given a server, db, user or password that is not a
\* string raises TypeError before make_engine or engine.connect is called: no
\* engine and no connection exists after it.
C5_TypeErrorBeforeDriver ==
  last.op = "__init__" /\ (\E i \in 1..4 : ~IsString(last.arg.v[i])) =>
    /\ last.err = "TypeError" /\ last.calls = <<>>
    /\ pc = "failed" /\ engine = "none" /\ con = "none" /\ ~conOpen

\* C5 witness: only the password is not a string
C5_Witness ==
  /\ last.op = "__init__" /\ last.err = "TypeError"
  /\ \A i \in 1..3 : IsString(last.arg.v[i])
  /\ ~IsString(last.arg.v[4])

\* the number of separators in a name
CountSep(s, sep) == Cardinality({i \in 1..Len(s) : s[i] = sep})

\* a step that is a call of df_to_db with a string that has not exactly one "."
BadNameStep ==
  /\ nops' = nops + 1 /\ last'.op = "df_to_db"
  /\ IsString(last'.arg) /\ CountSep(last'.arg.v, ".") # 1

\* C6: df_to_db given a string without exactly one "." raises before it uses
\* the connection: it makes no driver call, nothing is written, and the
\* session is as it was.
C6_BadNameBeforeWrite ==
  /\ [](last.op = "df_to_db" /\ IsString(last.arg) /\ CountSep(last.arg.v, ".") # 1 =>
          last.err \notin {"none", "DriverError"} /\ last.calls = <<>>)
  /\ [][BadNameStep => UNCHANGED <<self_vars, conOpen, rawOpen, stdout, scope>>]_vars

\* C6 witness: a name with two separators was rejected on an open connection
C6_Witness ==
  /\ last.op = "df_to_db" /\ IsString(last.arg) /\ CountSep(last.arg.v, ".") = 2
  /\ last.err # "none" /\ last.calls = <<>> /\ conOpen

\* C7 as stated: the error for a name that is not two parts is a ValueError.
C7_ValueError ==
  last.op = "df_to_db" /\ IsString(last.arg) /\ CountSep(last.arg.v, ".") # 1 =>
    last.err = "ValueError"

\* C7 amended: the error for a name that is not two parts is a plain
\* Exception raised from the ValueError of the unpacking (its __cause__); a
\* caller that handles only ValueError does not catch it.
C7_PlainException ==
  last.op = "df_to_db" /\ IsString(last.arg) /\ CountSep(last.arg.v, ".") # 1 =>
    last.err = "Exception" /\ last.exc = "ValueError"

\* C7 witness: a name with no separator was rejected
C7_Witness ==
  /\ last.op = "df_to_db" /\ IsString(last.arg) /\ CountSep(last.arg.v, ".") = 0
  /\ last.err = "Exception"

\* the database connections the session has open: self.con and what
\* engine.raw_connection() handed out
OpenConnections == (IF conOpen THEN 1 ELSE 0) + rawOpen

\* C8: the session holds at most one open connection, the one opened at
\* construction, and none once close() has returned.
C8_OneConnection ==
  pc = "live" =>
    /\ OpenConnections <= 1
    /\ OpenConnections = 1 => conOpen
    /\ ~is_connected => OpenConnections = 0

\* C9 as stated: a silent session never prints; a session that is not silent
\* prints the banner at construction and one message in every close().
C9_PrintsEveryClose ==
  /\ [](last.op = "__init__" /\ last.arg2 = Bool(TRUE) => stdout = <<>>)
  /\ [](pc = "live" /\ is_silent => stdout = <<>>)
  /\ [](last.op = "__init__" /\ last.err = "none" /\ last.arg2 = Bool(FALSE) =>
          Len(stdout) = 1 /\ stdout[1].msg = "Connected to")
  /\ [][CloseStep /\ ~is_silent => Len(stdout') = Len(stdout) + 1]_vars

\* C9 amended: a silent session never prints; a session that is not silent
\* prints the banner at construction and one message in every close() in
\* which con.close() does not raise; a close() in which it raises prints
\* nothing.
C9_PrintsUnlessSilent ==
  /\ [](last.op = "__init__" /\ last.arg2 = Bool(TRUE) => stdout = <<>>)
  /\ [](pc = "live" /\ is_silent => stdout = <<>>)
  /\ [](last.op = "__init__" /\ last.err = "none" /\ last.arg2 = Bool(FALSE) =>
          Len(stdout) = 1 /\ stdout[1].msg = "Connected to")
  /\ [][CloseStep /\ ~is_silent =>
          /\ last'.err # "DriverError" =>
               Len(stdout') = Len(stdout) + 1 /\ SubSeq(stdout', 1, Len(stdout)) = stdout
          /\ last'.err = "DriverError" => stdout' = stdout]_vars
  /\ [][~CloseStep /\ pc = "live" => stdout' = stdout]_vars

\* C9 witness: a silent session closed twice and left through __exit__
C9_Witness ==
  /\ pc = "live" /\ is_silent /\ stdout = <<>> /\ ~conOpen
  /\ last.op = "__exit__" /\ last.calls = <<>> /\ nops >= 3

\* C10: exec_sp of a PostgreSQLSession raises NotImplementedError for every
\* name and params, connected or closed, makes no driver call and leaves the
\* session as it was.
C10_PgExecSpNotImplemented ==
  /\ [](dialect = "PostgreSQL" /\ last.op = "exec_sp" =>
          last.err = "NotImplementedError" /\ last.calls = <<>>)
  /\ [][dialect = "PostgreSQL" /\ nops' = nops + 1 /\ last'.op = "exec_sp" =>
          UNCHANGED <<self_vars, conOpen, rawOpen, stdout, scope>>]_vars

\* C10 witness: exec_sp with a name that is not a string, on a closed session
C10_Witness ==
  /\ dialect = "PostgreSQL" /\ last.op = "exec_sp" /\ ~IsString(last.arg)
  /\ last.err = "NotImplementedError" /\ pc = "live" /\ ~is_connected

\* C11: in both dialects select_statement given a query that is not a string
\* raises TypeError before any use of the connection and leaves the session
\* as it was.
C11_QueryTypeError ==
  /\ [](last.op = "select_statement" /\ ~IsString(last.arg) =>
          last.err = "TypeError" /\ last.calls = <<>>)
  /\ [][nops' = nops + 1 /\ last'.op = "select_statement" /\ ~IsString(last'.arg) =>
          UNCHANGED <<self_vars, conOpen, rawOpen, stdout, scope>>]_vars

\* C11 witness: the PostgreSQL dialect rejected an integer query
C11_Witness ==
  /\ dialect = "PostgreSQL" /\ last.op = "select_statement" /\ last.arg = IntVal
  /\ last.err = "TypeError" /\ conOpen

\* the arguments C12 is about: a name that is not a string, or params that is
\* not an ordered sequence (a list or a tuple)
BadSpArgs == ~IsString(last.arg) \/ last.arg2.t \notin {"list", "tuple"}

\* C12 as stated: exec_sp given such arguments raises TypeError before any
\* driver call.
C12_SpTypeError ==
  last.op = "exec_sp" /\ BadSpArgs => last.err = "TypeError" /\ last.calls = <<>>

\* C12 amended: exec_sp of an MSSQLSession given a name that is not a string,
\* or params that is neither a list nor None, raises TypeError before any
\* driver call (None is taken as the empty list); exec_sp of a
\* PostgreSQLSession given such arguments raises NotImplementedError, also
\* before any driver call.
C12_SpArgumentErrors ==
  last.op = "exec_sp" /\ (~IsString(last.arg) \/ last.arg2.t \notin {"list", "NoneType"}) =>
    /\ last.calls = <<>>
    /\ dialect = "MSSQL" => last.err = "TypeError"
    /\ dialect = "PostgreSQL" => last.err = "NotImplementedError"

\* C12 witness: MSSQL exec_sp with a string name and an integer as params
C12_Witness ==
  /\ dialect = "MSSQL" /\ last.op = "exec_sp" /\ IsString(last.arg)
  /\ last.arg2 = IntVal /\ last.err = "TypeError" /\ last.calls = <<>>

\* C13: whenever select_statement or df_to_db hands a statement to the
\* driver, the connection handle it hands over is open.
C13_StatementsOnOpenHandle ==
  last.op \in {"select_statement", "df_to_db"} =>
    \A i \in 1..Len(last.calls) :
      last.calls[i].fn \in {"read_sql", "to_sql"} => last.calls[i].open

\* the driver calls of the last method call that raised
FailedCalls == {i \in 1..Len(last.calls) : ~last.calls[i].ok}

\* C14: a failure of a driver call in construction, select_statement,
\* exec_sp, df_to_db or close() reaches the caller as that error: the failing
\* call was made once, it is the last driver call of the operation (nothing
\* is retried or tried instead), and the operation ends with the driver's
\* error; an operation ends with a driver error only when a driver call
\* failed.
C14_DriverErrorPropagates ==
  last.op \in {"__init__", "select_statement", "exec_sp", "df_to_db", "close", "__exit__"} =>
    /\ FailedCalls # {} =>
         /\ FailedCalls = {Len(last.calls)}
         /\ last.err = "DriverError"
         /\ \A i \in 1..(Len(last.calls) - 1) :
              last.calls[i].fn # last.calls[Len(last.calls)].fn
    /\ last.err = "DriverError" => FailedCalls # {}

\* C14 witness: cursor.execute failed in exec_sp after two calls that succeeded
C14_Witness ==
  /\ last.op = "exec_sp" /\ last.err = "DriverError" /\ Len(last.calls) = 3
  /\ last.calls[3].fn = "execute" /\ ~last.calls[3].ok
  /\ last.calls[1].ok /\ last.calls[2].ok

\* the number of "?" placeholders in a statement
Placeholders(stmt) == Cardinality({i \in 1..Len(stmt) : stmt[i] = "?"})

\* the positions of the calls of fn among the driver calls of the last call
CallsOf(fn) == {i \in 1..Len(last.calls) : last.calls[i].fn = fn}

\* C15: MSSQL exec_sp with a string name and a list of n parameters (None for
\* the empty list) executes, once and on a raw cursor, a statement with
\* exactly n placeholders and the n parameters in their order, and commits
\* once, after the execute has returned; when the execute raises there is no
\* commit.
C15_SpStatement ==
  (dialect = "MSSQL" /\ last.op = "exec_sp" /\ IsString(last.arg)
     /\ last.arg2.t \in {"list", "NoneType"}) =>
    LET ps == IF last.arg2.t = "list" THEN last.arg2.v ELSE <<>>
    IN /\ Cardinality(CallsOf("execute")) <= 1
       /\ \A i \in CallsOf("execute") :
            /\ Placeholders(last.calls[i].stmt) = Len(ps)
            /\ last.calls[i].args = ps
            /\ last.calls[i].on = "raw"
            /\ i > 1 /\ last.calls[i - 1].fn = "cursor" /\ last.calls[i - 1].ok
       /\ \A j \in CallsOf("commit") :
            /\ j > 1 /\ last.calls[j - 1].fn = "execute" /\ last.calls[j - 1].ok
            /\ CallsOf("commit") = {j}
       /\ last.err = "none" =>
            Cardinality(CallsOf("execute")) = 1 /\ Cardinality(CallsOf("commit")) = 1

\* C15 witness: two different parameters, executed and committed
C15_Witness ==
  /\ dialect = "MSSQL" /\ last.op = "exec_sp" /\ last.err = "none"
  /\ last.arg2 = List(<<"x", "y">>)
  /\ Len(last.calls) = 4 /\ last.calls[3].args = <<"x", "y">>
  /\ Placeholders(last.calls[3].stmt) = 2

\* C16 as stated: an error raised in the with-block is not suppressed: after
\* __exit__ has called close() the same error propagates.
C16_BodyErrorPropagates ==
  last.op = "__exit__" /\ last.exc # "none" => last.err = last.exc

\* C16 amended: an error raised in the with-block is never suppressed: after
\* __exit__ has called close() the same error propagates, unless con.close()
\* raised in that close(), in which case the driver's error propagates in
\* its place.
C16_BodyErrorNotSuppressed ==
  last.op = "__exit__" /\ last.exc # "none" =>
    /\ last.err # "none"
    /\ FailedCalls = {} => last.err = last.exc
    /\ FailedCalls # {} => last.err = "DriverError"

\* C16 witness: the body raised on a session already closed
C16_Witness ==
  /\ last.op = "__exit__" /\ last.exc = "BodyError" /\ last.err = "BodyError"
  /\ last.calls = <<>> /\ ~is_connected

\* a step that is a call of select_statement, exec_sp or df_to_db
StatementStep ==
  nops' = nops + 1 /\ last'.op \in {"select_statement", "exec_sp", "df_to_db"}

\* C17: select_statement, exec_sp and df_to_db, returning or raising, leave
\* is_connected, is_silent, the stored credentials and the engine and
\* connection handles as they were; is_connected changes only in the
\* constructor and in close().
C17_StatementsKeepSession ==
  /\ [][StatementStep => UNCHANGED self_vars]_vars
  /\ [][is_connected' # is_connected => last'.op \in {"__init__", "close", "__exit__"}]_vars

\* C17 witness: a statement call that raised in the driver on an open session
C17_Witness ==
  /\ last.op \in {"select_statement", "df_to_db"} /\ last.err = "DriverError"
  /\ conOpen /\ is_connected /\ engine = "e1" /\ con = "c1"

====
